---- MODULE Spec2Model ----
(***************************************************************************)
(* A model of solman: the metadata loader (SolutionGroup.from_meta), the   *)
(* lazily cached file grouping (SolutionGroup._lazy_get_files), the        *)
(* derived copies (with_meta_overrides), the document assembly (to_latex)  *)
(* and the template rendering (latex.render_solutions_tex).                *)
(*                                                                         *)
(* Text is modelled as a sequence of one-character strings, so that        *)
(* str.split, str.replace, str.isdigit and int() are computed and not      *)
(* assumed.                                                                *)
(***************************************************************************)
EXTENDS Integers, Sequences, FiniteSets, TLC

VARIABLES
    meta,        \* the record yaml.load returned (a mapping key -> value)
    importDate,  \* datetime.date.today() when solman.soln was imported
    today,       \* what datetime.date.today() returns now
    loaded,      \* outcome of the from_meta call: "none" before the call
    stem,        \* a file's name without its suffix (file.with_suffix('').name)
    ptype,       \* the ProblemType the file was matched for
    soln_num,    \* the label _file_to_latex derived from stem
    fs,          \* the solution files that exist on disk
    colls,       \* the SolutionGroup objects created so far
    scans,       \* per collection and type: directory scans that returned
    fails,       \* directory scans that raised so far
    stored,      \* per collection and type: the grouping first put in its cache
    outfile,     \* the content of the file at the output path
    res          \* the outcome of the call that just ended, until the caller takes it

metaVars == <<meta, importDate, today, loaded>>
labelVars == <<stem, ptype, soln_num>>
mainVars == <<fs, colls, scans, fails, stored, outfile, res>>
vars == <<meta, importDate, today, loaded, stem, ptype, soln_num,
          fs, colls, scans, fails, stored, outfile, res>>

-----------------------------------------------------------------------------
(* Text helpers *)

Digits == <<"0", "1", "2", "3", "4", "5", "6", "7", "8", "9">>

\* the value of one decimal digit character, -1 for any other character
DigitVal(c) ==
    IF \E i \in 1..10 : Digits[i] = c
    THEN (CHOOSE i \in 1..10 : Digits[i] = c) - 1
    ELSE -1

\* str.isdigit on the modelled (ASCII) alphabet: non-empty and all digits
IsDigit(s) == Len(s) > 0 /\ \A i \in 1..Len(s) : DigitVal(s[i]) >= 0

RECURSIVE ToInt(_)
\* int(s) for a string of decimal digits
ToInt(s) ==
    IF Len(s) = 0 THEN 0
    ELSE 10 * ToInt(SubSeq(s, 1, Len(s) - 1)) + DigitVal(s[Len(s)])

\* s starts with t at position i
MatchAt(s, t, i) ==
    /\ i + Len(t) - 1 <= Len(s)
    /\ \A j \in 1..Len(t) : s[i + j - 1] = t[j]

\* t in s
Contains(s, t) == \E i \in 1..(Len(s) + 1) : MatchAt(s, t, i)

RECURSIVE SplitFrom(_, _, _, _)
\* str.split(sep) for a one-character sep: cur is the piece being read
SplitFrom(s, sep, i, cur) ==
    IF i > Len(s) THEN <<cur>>
    ELSE IF s[i] = sep THEN <<cur>> \o SplitFrom(s, sep, i + 1, <<>>)
    ELSE SplitFrom(s, sep, i + 1, Append(cur, s[i]))

Split(s, sep) == SplitFrom(s, sep, 1, <<>>)

-----------------------------------------------------------------------------
(* Values of the metadata record and of the constructor's keyword arguments *)

None == [k |-> "None"]
Str(s) == [k |-> "str", s |-> s]
Date(y, m, d) == [k |-> "date", ymd |-> <<y, m, d>>]
DateTime(y, m, d) == [k |-> "datetime", ymd |-> <<y, m, d>>]
Tuple(items) == [k |-> "tuple", items |-> items]

Ok(v) == [kind |-> "ok", value |-> v]
Raise(e, key) == [kind |-> e, key |-> key]

DaysIn(y, m) ==
    IF m \in {4, 6, 9, 11} THEN 30
    ELSE IF m = 2 THEN (IF y % 4 = 0 /\ (y % 100 # 0 \/ y % 400 = 0) THEN 29 ELSE 28)
    ELSE 31

\* datetime.datetime.strptime(d, '%m-%d-%Y'): one or two digits of month and
\* of day, four digits of year, a calendar date; TypeError on a non-string
Strptime(v) ==
    IF v.k # "str" THEN Raise("TypeError", "SolutionDate")
    ELSE LET p == Split(v.s, "-") IN
         IF /\ Len(p) = 3
            /\ IsDigit(p[1]) /\ Len(p[1]) <= 2
            /\ IsDigit(p[2]) /\ Len(p[2]) <= 2
            /\ IsDigit(p[3]) /\ Len(p[3]) = 4
            /\ ToInt(p[1]) \in 1..12
            /\ ToInt(p[3]) >= 1
            /\ ToInt(p[2]) \in 1..DaysIn(ToInt(p[3]), ToInt(p[1]))
         THEN Ok(DateTime(ToInt(p[3]), ToInt(p[1]), ToInt(p[2])))
         ELSE Raise("ValueError", "SolutionDate")

\* the coercion of MetaFields.SolutionDate
CoerceDate(v) ==
    IF v.k \in {"date", "datetime"} THEN Ok(v) ELSE Strptime(v)

\* the coercion of MetaFields.Tags: tuple(comma_separated.split(','))
CoerceTags(v) ==
    IF v.k = "str" THEN Ok(Tuple(Split(v.s, ",")))
    ELSE Raise("AttributeError", "Tags")

Coerce(c, v) ==
    IF c = "date" THEN CoerceDate(v)
    ELSE IF c = "tags" THEN CoerceTags(v)
    ELSE Ok(v)

Chapter == Str(<<"C", "h", "a", "p", "t", "e", "r">>)

meta_field(key, attr, coercion, required, default) ==
    [key |-> key, attr |-> attr, coercion |-> coercion, required |-> required,
     default |-> default]

\* class MetaFields; the default of SolutionDate was evaluated at import
MetaFields ==
    [Author |-> meta_field("Author", "author", "none", TRUE, None),
     Book |-> meta_field("Book", "book", "none", TRUE, None),
     Category |-> meta_field("Category", "category", "none", TRUE, None),
     ISBN |-> meta_field("ISBN", "isbn", "none", FALSE, None),
     Name |-> meta_field("Name", "name", "none", TRUE, None),
     ReferencesFile |-> meta_field("ReferencesFile", "references_file", "none", FALSE, None),
     SectionPrefix |-> meta_field("SectionPrefix", "section_prefix", "none", FALSE, Chapter),
     SolutionAuthor |-> meta_field("SolutionAuthor", "solution_author", "none", TRUE, None),
     SolutionDate |-> meta_field("SolutionDate", "solution_date", "date", FALSE, importDate),
     Subcategory |-> meta_field("Subcategory", "subcategory", "none", FALSE, None),
     Tags |-> meta_field("Tags", "tags", "tags", FALSE, None)]

RequiredKeys == {"Author", "Book", "Category", "Name", "SolutionAuthor"}
OptionalKeys == {"ISBN", "ReferencesFile", "SectionPrefix", "SolutionDate",
                 "Subcategory", "Tags"}

\* the fields visited from the last name to the first
FieldOrderReversed ==
    <<"Tags", "Subcategory", "SolutionDate", "SolutionAuthor", "SectionPrefix",
      "ReferencesFile", "Name", "ISBN", "Category", "Book", "Author">>

\* the order the comprehension of from_meta visits the fields: dir(MetaFields)
\* is sorted by name
FieldOrder ==
    <<"Author", "Book", "Category", "ISBN", "Name", "ReferencesFile",
      "SectionPrefix", "SolutionAuthor", "SolutionDate", "Subcategory", "Tags">>

\* get_meta_field of from_meta
get_meta_field(m, field) ==
    LET value == IF field.key \in DOMAIN m THEN m[field.key] ELSE field.default IN
    IF value = None /\ field.required THEN Raise("SolManError", field.key)
    ELSE Coerce(field.coercion, value)

RECURSIVE BuildKwargs(_, _, _)
\* the dict comprehension of from_meta: the first raise ends it
BuildKwargs(m, i, kwargs) ==
    IF i > Len(FieldOrder) THEN [kind |-> "ok", kwargs |-> kwargs]
    ELSE LET field == MetaFields[FieldOrder[i]]
             r == get_meta_field(m, field)
         IN IF r.kind # "ok" THEN r
            ELSE BuildKwargs(m, i + 1, [kwargs EXCEPT ![field.attr] = r.value])

Attrs == {"author", "book", "category", "isbn", "name", "references_file",
          "section_prefix", "solution_author", "solution_date", "subcategory", "tags"}

\* SolutionGroup.__init__ on the metadata attributes: a solution_date of None
\* becomes today's date
SolutionGroupInit(kwargs) ==
    [kwargs EXCEPT !["solution_date"] =
        IF kwargs["solution_date"] = None THEN today ELSE kwargs["solution_date"]]

\* SolutionGroup.from_meta on the parsed record m
from_meta(m) ==
    LET r == BuildKwargs(m, 1, [a \in Attrs |-> None]) IN
    IF r.kind # "ok" THEN r
    ELSE [kind |-> "ok", group |-> SolutionGroupInit(r.kwargs)]

-----------------------------------------------------------------------------
(* The metadata loader as a state machine: a record is drawn, the clock may  *)
(* advance after the import, and from_meta is called once.                  *)

MaxTagLen == 1
MaxDays == 1

Absent == [k |-> "absent"]

Text(n) == UNION {[1..l -> {"a", ","}] : l \in 0..n}

RequiredValues == {Absent, None, Str(<<"v">>)}
PlainValues == {Absent, Str(<<"v">>)}
TagsValues == {Absent, None} \cup {Str(t) : t \in Text(MaxTagLen)}
DateValues ==
    {Absent, None, Date(2019, 4, 6),
     Str(<<"0", "4", "-", "0", "6", "-", "2", "0", "1", "9">>),
     Str(<<"2", "-", "3", "0", "-", "2", "0", "1", "9">>),
     Str(<<"2", "0", "1", "9", "-", "0", "4", "-", "0", "6">>)}

\* the mapping without the keys that are absent from the file
Present(f) == [key \in {x \in DOMAIN f : f[x] # Absent} |-> f[key]]

Idle == [kind |-> "none"]


InitMeta ==
    /\ \E au \in RequiredValues, bo \in RequiredValues, ca \in RequiredValues,
          na \in RequiredValues, sa \in RequiredValues,
          isbn \in PlainValues, rf \in PlainValues, sp \in PlainValues,
          sc \in PlainValues, sd \in DateValues, tg \in TagsValues :
          meta = Present([Author |-> au, Book |-> bo, Category |-> ca, ISBN |-> isbn,
                          Name |-> na, ReferencesFile |-> rf, SectionPrefix |-> sp,
                          SolutionAuthor |-> sa, SolutionDate |-> sd,
                          Subcategory |-> sc, Tags |-> tg])
    /\ importDate = Date(2019, 4, 6)
    /\ today = importDate
    /\ loaded = Idle
    /\ stem = <<>> /\ ptype = "prob" /\ soln_num = Idle
    /\ fs = {} /\ colls = <<>> /\ scans = <<>> /\ fails = 0
    /\ stored = <<>> /\ outfile = Idle /\ res = Idle

\* a day passes between the import of solman.soln and the call of from_meta
Tick ==
    /\ loaded = Idle
    /\ today.ymd[3] < importDate.ymd[3] + MaxDays
    /\ today' = Date(today.ymd[1], today.ymd[2], today.ymd[3] + 1)
    /\ UNCHANGED <<meta, importDate, loaded>>
    /\ UNCHANGED labelVars /\ UNCHANGED mainVars

\* SolutionGroup.from_meta(meta_file)
FromMeta ==
    /\ loaded = Idle
    /\ loaded' = from_meta(meta)
    /\ UNCHANGED <<meta, importDate, today>>
    /\ UNCHANGED labelVars /\ UNCHANGED mainVars

NextMeta == Tick \/ FromMeta

SpecMeta == InitMeta /\ [][NextMeta]_vars

MissingRequired(m) == {key \in RequiredKeys : key \notin DOMAIN m \/ m[key] = None}

\* the value the record gives for key can be coerced
Coercible(m, key) == Coerce(MetaFields[key].coercion, m[key]).kind = "ok"

\* the default the specification declares for an optional field
DeclaredDefault(key) ==
    IF key = "SectionPrefix" THEN Chapter
    ELSE IF key = "SolutionDate" THEN today
    ELSE None

\* C1: a record with all five required fields (and coercible values for the
\* optional fields it gives) loads successfully, and every optional field that
\* is absent from the record has its declared default, the solution date being
\* the date of the call.
C1_AbsentOptionalsGetDefaults ==
    (/\ loaded # Idle
     /\ MissingRequired(meta) = {}
     /\ \A key \in OptionalKeys \cap DOMAIN meta : Coercible(meta, key))
    => /\ loaded.kind = "ok"
       /\ \A key \in OptionalKeys \ DOMAIN meta :
              loaded.group[MetaFields[key].attr] = DeclaredDefault(key)

\* C2: a record with a required field absent or null makes from_meta raise
\* SolManError naming a field that is missing, whatever the other fields are.
C2_MissingRequiredRaisesSolManError ==
    (loaded # Idle /\ MissingRequired(meta) # {})
    => /\ loaded.kind = "SolManError"
       /\ loaded.key \in MissingRequired(meta)

\* from_meta raised SolManError on a record whose Tags are absent and whose
\* SolutionDate is unparsable text, with two required fields missing
C2_Witness ==
    /\ loaded # Idle
    /\ loaded.kind = "SolManError"
    /\ Cardinality(MissingRequired(meta)) >= 2
    /\ "Tags" \notin DOMAIN meta
    /\ "SolutionDate" \in DOMAIN meta
    /\ ~Coercible(meta, "SolutionDate")

-----------------------------------------------------------------------------
(* The problem number of a matched file (SolutionGroup._file_to_latex)      *)

MaxPieces == 4

\* ProblemType: the value of each member, as text
TagOf(t) == IF t = "ex" THEN <<"e", "x">> ELSE <<"p", "r", "o", "b">>

\* ProblemType: the name of each member
NameOf(t) == IF t = "ex" THEN "Exercise" ELSE "Problem"

ProblemTypes == {"ex", "prob"}

RECURSIVE ReplaceFrom(_, _, _, _)
\* str.replace(old, new) for a non-empty old: leftmost occurrences, not overlapping
ReplaceFrom(s, old, new, i) ==
    IF i > Len(s) THEN <<>>
    ELSE IF MatchAt(s, old, i) THEN new \o ReplaceFrom(s, old, new, i + Len(old))
    ELSE <<s[i]>> \o ReplaceFrom(s, old, new, i + 1)

Replace(s, old, new) == ReplaceFrom(s, old, new, 1)

\* the glob of _lazy_get_files, '**/*{tag}*.md', on a file name stem + '.md'
Matches(s, t) == Contains(s, TagOf(t))

\* soln_num of _file_to_latex: every 'prob-' (or 'ex-') removed from the stem
SolnNum(s, t) == Replace(s, TagOf(t) \o <<"-">>, <<>>)

RECURSIVE Flatten(_)
Flatten(ps) == IF Len(ps) = 0 THEN <<>> ELSE Head(ps) \o Flatten(Tail(ps))

Pieces == {<<"-">>, <<"1">>, <<"h">>, TagOf("ex"), TagOf("prob")}

Stems == {Flatten(ps) : ps \in UNION {[1..l -> Pieces] : l \in 0..MaxPieces}}

InitLabel ==
    /\ ptype \in ProblemTypes
    /\ stem \in {s \in Stems : Matches(s, ptype)}
    /\ soln_num = Idle
    /\ meta = <<>> /\ importDate = Date(2019, 4, 6) /\ today = importDate
    /\ loaded = Idle
    /\ fs = {} /\ colls = <<>> /\ scans = <<>> /\ fails = 0
    /\ stored = <<>> /\ outfile = Idle /\ res = Idle

\* the first statement of _file_to_latex(file, problem_type)
FileToLatex ==
    /\ soln_num = Idle
    /\ soln_num' = [kind |-> "label", s |-> SolnNum(stem, ptype)]
    /\ UNCHANGED <<stem, ptype>>
    /\ UNCHANGED metaVars /\ UNCHANGED mainVars

NextLabel == FileToLatex

SpecLabel == InitLabel /\ [][NextLabel]_vars

\* the position of the first occurrence of t in s (s contains t)
FirstIndex(s, t) == CHOOSE i \in 1..Len(s) : MatchAt(s, t, i) /\ \A j \in 1..(i - 1) : ~MatchAt(s, t, j)

\* what follows the tag and its joining delimiter in the stem
PortionAfterTag(s, t) ==
    LET rest == SubSeq(s, FirstIndex(s, TagOf(t)) + Len(TagOf(t)), Len(s)) IN
    IF Len(rest) > 0 /\ Head(rest) = "-" THEN Tail(rest) ELSE rest

\* C9: the problem number of every matched file is the portion of its stem
\* that follows the problem-type tag and the joining delimiter; nothing is kept
\* in front of it.
C9_NumberIsPortionAfterTag ==
    soln_num # Idle => soln_num.s = PortionAfterTag(stem, ptype)

-----------------------------------------------------------------------------
(* Collections, the file system and the cached groupings                    *)

MaxColl == 2
MaxFails == 1

R1 == <<"/", "a">>
R2 == <<"/", "b">>
OutPath == <<"/", "o">>

File(root, dir, st) == [root |-> root, dir |-> dir, stem |-> st]

\* the solution files that may exist: a problem in section 2, one in section
\* 10, one in a directory that is not a number, and in section 2 a file whose
\* name holds both tags (the glob matches it for exercises and for problems)
Universe ==
    {File(R1, <<"2">>, <<"p", "r", "o", "b", "-", "1">>),
     File(R1, <<"1", "0">>, <<"p", "r", "o", "b", "-", "1">>),
     File(R1, <<"x">>, <<"p", "r", "o", "b", "-", "1">>),
     File(R1, <<"2">>, <<"e", "x", "-", "p", "r", "o", "b", "-", "2">>)}

\* self.root.glob('**/*{tag}*.md'): the files under root whose name matches
Glob(root, t) == {f \in fs : f.root = root /\ Matches(f.stem, t)}

\* the orders in which a traversal may yield the files of S
Orderings(S) ==
    {p \in [1..Cardinality(S) -> S] : \A i, j \in 1..Cardinality(S) : p[i] = p[j] => i = j}

\* section of _lazy_get_files: the parent directory's name as it is
SectionKeyLiteral(dir) == [str |-> dir]

\* section of _lazy_get_files: int(name) when name.isdigit(), else the name
SectionKey(dir) == IF IsDigit(dir) THEN [int |-> ToInt(dir)] ELSE [str |-> dir]

RECURSIVE GroupFiles(_, _, _)
\* the loop of _lazy_get_files over soln_files: files_by_section[section].append(file)
GroupFiles(files, i, g) ==
    IF i > Len(files) THEN g
    ELSE LET section == SectionKey(files[i].dir) IN
         GroupFiles(files, i + 1,
                    IF section \in DOMAIN g
                    THEN [g EXCEPT ![section] = Append(@, files[i])]
                    ELSE g @@ (section :> <<files[i]>>))

Dict(g) == [k |-> "dict", d |-> g]

Types == {"prob", "ex"}

Store == [colls |-> colls, scans |-> scans, fails |-> fails, stored |-> stored]

\* what an access returned: the store after it, the exception or "none", the
\* grouping, whether a scan was started, whether a grouping was cached before
Returned(st, value, scanned, again) ==
    [st |-> st, exc |-> "none", value |-> value, scanned |-> scanned, again |-> again]

\* the cache test of _lazy_get_files as a truth test: 'if not getattr(...)'
MustScanIfFalsy(cached) == cached = None \/ cached.d = <<>>

\* the cache test of _lazy_get_files: 'if getattr(self, cache_attr) is None'
MustScan(cached) == cached = None

\* _lazy_get_files(cache_attr, problem_type) on collection c; order is what the
\* traversal does if it is made: it yields order.files, or it raises
lazy_get_files(st, c, t, order) ==
    LET cached == st.colls[c].cache[t] IN
    IF MustScan(cached)
    THEN IF "fail" \in DOMAIN order
         THEN [st |-> [st EXCEPT !.fails = @ + 1],
               exc |-> "OSError", value |-> None, scanned |-> TRUE,
               again |-> cached # None]
         ELSE LET value == Dict(GroupFiles(order.files, 1, <<>>)) IN
              Returned([st EXCEPT !.scans[<<c, t>>] = @ + 1,
                                  !.colls[c].cache[t] = value,
                                  !.stored[<<c, t>>] = IF @ = None THEN value ELSE @],
                       value, TRUE, cached # None)
    ELSE Returned(st, cached, FALSE, TRUE)

\* the outcomes of a traversal of the root of collection c now, for an access
\* that makes one
ScanOutcomes(c, t) ==
    IF MustScan(colls[c].cache[t])
    THEN {[files |-> p] : p \in Orderings(Glob(colls[c].root, t))}
         \cup (IF fails < MaxFails THEN {[fail |-> TRUE]} ELSE {})
    ELSE {[files |-> <<>>]}

SetStore(st) ==
    /\ colls' = st.colls
    /\ scans' = st.scans
    /\ fails' = st.fails
    /\ stored' = st.stored

\* the metadata file of the source collection: every key is given
DemoMeta ==
    [Author |-> Str(<<"A">>), Book |-> Str(<<"B">>), Category |-> Str(<<"C">>),
     ISBN |-> Str(<<"1">>), Name |-> Str(<<"N">>),
     ReferencesFile |-> Str(<<"r", ".", "b", "i", "b">>),
     SectionPrefix |-> Str(<<"C", "h">>), SolutionAuthor |-> Str(<<"S">>),
     SolutionDate |-> Date(2019, 4, 6), Subcategory |-> Str(<<"s">>),
     Tags |-> Str(<<"a">>)]

\* SolutionGroup.__init__: the attributes, the root and the two empty caches
SolutionGroup(kwargs, root) ==
    [attrs |-> SolutionGroupInit(kwargs), root |-> root,
     cache |-> [prob |-> None, ex |-> None]]

Init ==
    /\ meta = DemoMeta /\ importDate = Date(2019, 4, 6) /\ today = importDate
    /\ loaded = Idle
    /\ fs = {}
    /\ colls = <<SolutionGroup(from_meta(DemoMeta).group, R1)>>
    /\ scans = [x \in (1..MaxColl) \X Types |-> 0]
    /\ fails = 0
    /\ stored = [x \in (1..MaxColl) \X Types |-> None]
    /\ outfile = Idle
    /\ res = Idle
    /\ stem = <<>> /\ ptype = "prob" /\ soln_num = Idle

\* a solution file is created under a root
AddFile(f) ==
    /\ res = Idle
    /\ f \notin fs
    /\ fs' = fs \cup {f}
    /\ UNCHANGED <<colls, scans, fails, stored, outfile, res>>
    /\ UNCHANGED metaVars /\ UNCHANGED labelVars

\* a solution file is deleted
RemoveFile(f) ==
    /\ res = Idle
    /\ f \in fs
    /\ fs' = fs \ {f}
    /\ UNCHANGED <<colls, scans, fails, stored, outfile, res>>
    /\ UNCHANGED metaVars /\ UNCHANGED labelVars

\* the caller takes the outcome of the call that ended
Return ==
    /\ res # Idle
    /\ res' = Idle
    /\ UNCHANGED <<fs, colls, scans, fails, stored, outfile>>
    /\ UNCHANGED metaVars /\ UNCHANGED labelVars

Access(name, c, t) ==
    /\ res = Idle
    /\ \E order \in ScanOutcomes(c, t) :
          LET r == lazy_get_files(Store, c, t, order) IN
          /\ SetStore(r.st)
          /\ res' = [op |-> name, c |-> c, t |-> t, exc |-> r.exc, value |-> r.value,
                     scanned |-> r.scanned, again |-> r.again]
    /\ UNCHANGED <<fs, outfile>>
    /\ UNCHANGED metaVars /\ UNCHANGED labelVars

\* the property SolutionGroup.problems
Problems(c) == Access("problems", c, "prob")

\* the property SolutionGroup.exercises
Exercises(c) == Access("exercises", c, "ex")

RECURSIVE SumLen(_, _)
\* sum(len(v) for v in d.values())
SumLen(g, keys) ==
    IF keys = {} THEN 0
    ELSE LET key == CHOOSE x \in keys : TRUE IN Len(g[key]) + SumLen(g, keys \ {key})

\* SolutionGroup.__repr__: the exercises are counted first, then the problems
Repr(c) ==
    /\ res = Idle
    /\ \E oe \in ScanOutcomes(c, "ex"), op \in ScanOutcomes(c, "prob") :
          LET e == lazy_get_files(Store, c, "ex", oe)
              q == lazy_get_files(e.st, c, "prob", op)
          IN IF e.exc # "none"
             THEN /\ SetStore(e.st)
                  /\ res' = [op |-> "repr", c |-> c, exc |-> e.exc, scanned |-> e.scanned]
             ELSE /\ SetStore(q.st)
                  /\ res' = IF q.exc # "none"
                            THEN [op |-> "repr", c |-> c, exc |-> q.exc,
                                  scanned |-> e.scanned \/ q.scanned]
                            ELSE [op |-> "repr", c |-> c, exc |-> "none",
                                  scanned |-> e.scanned \/ q.scanned,
                                  name |-> colls[c].attrs["name"],
                                  P |-> SumLen(q.value.d, DOMAIN q.value.d),
                                  E |-> SumLen(e.value.d, DOMAIN e.value.d)]
    /\ UNCHANGED <<fs, outfile>>
    /\ UNCHANGED metaVars /\ UNCHANGED labelVars

\* kwargs.update(meta_overrides) of with_meta_overrides
Updated(attrs, ov) == [a \in Attrs |-> IF a \in DOMAIN ov THEN ov[a] ELSE attrs[a]]

\* the overrides a caller gives: no bibliography, another root
Overrides == {[references_file |-> None], [root |-> R2]}

\* the caches of a copy that starts empty
FreshCache(p, e) == [prob |-> None, ex |-> None]

\* new._problems = self.problems; new._exercises = self.exercises
SharedCache(p, e) == [prob |-> p, ex |-> e]

\* the store with the copy new added to the collections
Copied(st, new) ==
    LET n == Len(st.colls) + 1 IN
    [st EXCEPT !.colls = Append(@, new),
               !.stored[<<n, "prob">>] = new.cache["prob"],
               !.stored[<<n, "ex">>] = new.cache["ex"]]

\* SolutionGroup.with_meta_overrides(**ov) on collection c
WithMetaOverrides(c, ov) ==
    /\ res = Idle
    /\ Len(colls) < MaxColl
    /\ \E op \in ScanOutcomes(c, "prob"), oe \in ScanOutcomes(c, "ex") :
          LET new == SolutionGroup(Updated(colls[c].attrs, ov),
                                   IF "root" \in DOMAIN ov THEN ov["root"] ELSE colls[c].root)
              q == lazy_get_files(Store, c, "prob", op)
              e == lazy_get_files(q.st, c, "ex", oe)
          IN IF q.exc # "none"
             THEN /\ SetStore(q.st)
                  /\ res' = [op |-> "with_meta_overrides", c |-> c, exc |-> q.exc,
                             scanned |-> q.scanned]
             ELSE IF e.exc # "none"
             THEN /\ SetStore(e.st)
                  /\ res' = [op |-> "with_meta_overrides", c |-> c, exc |-> e.exc,
                             scanned |-> q.scanned \/ e.scanned]
             ELSE /\ SetStore(Copied(e.st, [new EXCEPT !.cache = SharedCache(q.value, e.value)]))
                  /\ res' = [op |-> "with_meta_overrides", c |-> c, exc |-> "none",
                             scanned |-> q.scanned \/ e.scanned, new |-> Len(colls) + 1]
    /\ UNCHANGED <<fs, outfile>>
    /\ UNCHANGED metaVars /\ UNCHANGED labelVars

-----------------------------------------------------------------------------
(* The assembly (to_latex) and the rendering (latex.render_solutions_tex)   *)

\* the parameters of render_solutions_tex, and those without a default
RenderParams == {"title", "soln_author", "abstract", "body", "bib_file", "outfile"}
RenderRequired == {"title", "soln_author", "abstract", "body", "bib_file"}

\* Python binds a call by keyword: every keyword is a parameter, and every
\* parameter without a default is given
CallAccepted(args) == DOMAIN args \subseteq RenderParams /\ RenderRequired \subseteq DOMAIN args

FileWith(content) == [kind |-> "file", content |-> content]

\* template.render(**options)
TemplateRender(options) == [kind |-> "tex", options |-> options]

\* the options of render_solutions_tex: 'Bib' only for a bib_file that is not None
Options(args) ==
    LET base == [SolutionTitle |-> args.title, SolutionAuthor |-> args.soln_author,
                 Abstract |-> args.abstract, Body |-> args.body]
    IN IF args.bib_file # None THEN base @@ [Bib |-> args.bib_file] ELSE base

\* render_solutions_tex with the output file opened before the template is rendered
render_solutions_tex_OpenFirst(args, templateOk, file) ==
    LET opened == IF args.outfile = None THEN file ELSE FileWith(<<>>) IN
    IF ~templateOk
    THEN [exc |-> "TemplateError", at |-> "template", rendered |-> None, outfile |-> opened]
    ELSE [exc |-> "none", at |-> "end", rendered |-> TemplateRender(Options(args)),
          outfile |-> IF args.outfile = None THEN file
                      ELSE FileWith(TemplateRender(Options(args)))]

\* latex.render_solutions_tex(**args): file is the content at the output path
\* before the call, templateOk whether loading and rendering the template succeed
render_solutions_tex(args, templateOk, file) ==
    IF ~templateOk
    THEN [exc |-> "TemplateError", at |-> "template", rendered |-> None, outfile |-> file]
    ELSE [exc |-> "none", at |-> "end", rendered |-> TemplateRender(Options(args)),
          outfile |-> IF args.outfile = None THEN file
                      ELSE FileWith(TemplateRender(Options(args)))]

\* a call of render_solutions_tex by keyword
CallRender(args, templateOk, file) ==
    IF CallAccepted(args) THEN render_solutions_tex(args, templateOk, file)
    ELSE [exc |-> "TypeError", at |-> "call", rendered |-> None, outfile |-> file]

\* the direct calls of latex.render_solutions_tex: to a file with a
\* bibliography, the template rendering or not, or for the text alone without one
RenderCalls ==
    {[bib |-> Str(<<"/", "r">>), out |-> Str(OutPath), ok |-> TRUE],
     [bib |-> Str(<<"/", "r">>), out |-> Str(OutPath), ok |-> FALSE],
     [bib |-> None, out |-> None, ok |-> TRUE]}

\* a direct call of latex.render_solutions_tex
RenderSolutionsTex ==
    /\ res = Idle
    /\ \E call \in RenderCalls :
          LET args == [title |-> Str(<<"T">>), soln_author |-> Str(<<"S">>),
                       abstract |-> Str(<<"A">>), body |-> <<>>, bib_file |-> call.bib,
                       outfile |-> call.out]
              r == CallRender(args, call.ok, outfile)
          IN /\ outfile' = r.outfile
             /\ res' = [op |-> "render_solutions_tex", args |-> args, exc |-> r.exc,
                        at |-> r.at, rendered |-> r.rendered, before |-> outfile,
                        converted |-> TRUE]
    /\ UNCHANGED <<fs, colls, scans, fails, stored>>
    /\ UNCHANGED metaVars /\ UNCHANGED labelVars

\* the code points of the characters of directory names, in order
Alphabet == <<"-", ".", "/", "0", "1", "2", "3", "4", "5", "6", "7", "8", "9",
              "a", "b", "x">>
Ord(ch) == CHOOSE i \in 1..Len(Alphabet) : Alphabet[i] = ch

\* s <= t for two strings
StrLE(s, t) ==
    \/ Len(s) <= Len(t) /\ \A i \in 1..Len(s) : s[i] = t[i]
    \/ \E i \in 1..Len(s) :
          /\ i <= Len(t)
          /\ \A j \in 1..(i - 1) : s[j] = t[j]
          /\ Ord(s[i]) < Ord(t[i])

\* a <= b for two section keys of one kind
KeyLE(a, b) ==
    IF "int" \in DOMAIN a THEN a.int <= b.int ELSE StrLE(a.str, b.str)

\* two keys Python cannot order: an int and a str
Comparable(keys) ==
    \/ \A x \in keys : "int" \in DOMAIN x
    \/ \A x \in keys : "str" \in DOMAIN x

RECURSIVE SortedKeys(_)
\* sorted(files_by_section.items(), key=lambda x: x[0]): the keys, ascending
SortedKeys(keys) ==
    IF keys = {} THEN <<>>
    ELSE LET x == CHOOSE y \in keys : \A o \in keys : KeyLE(y, o) IN
         <<x>> \o SortedKeys(keys \ {x})

\* pypandoc.convert_file: a file that is gone cannot be converted
Convertible(f) == f \in fs

\* _file_to_latex(file, problem_type), the conversion having succeeded
file_to_latex(f, t) ==
    [heading |-> <<NameOf(t), SolnNum(f.stem, t)>>, content |-> [kind |-> "latex", of |-> f]]

\* _section_to_latex(section, files, problem_type), the conversions having succeeded
section_to_latex(self, section, files, t) ==
    [prefix |-> self.attrs["section_prefix"], section |-> section,
     content |-> [i \in 1..Len(files) |-> file_to_latex(files[i], t)]]

\* the arguments to_latex gives to render_solutions_tex
ToLatexArgs(self, body) ==
    [title |-> Str(self.attrs["name"].s \o <<" ", "S", "o", "l", "u", "t", "i", "o", "n", "s">>),
     soln_author |-> self.attrs["solution_author"],
     soln_date |-> self.attrs["solution_date"],
     abstract |-> [book |-> self.attrs["book"], author |-> self.attrs["author"],
                   solutions_author |-> self.attrs["solution_author"],
                   date |-> self.attrs["solution_date"].ymd],
     body |-> body,
     bib_file |-> IF self.attrs["references_file"] # None
                  THEN Str(self.root \o <<"/">> \o self.attrs["references_file"].s)
                  ELSE None,
     outfile |-> Str(OutPath)]

\* to_latex after the grouping g was obtained
Assemble(self, t, g, templateOk, file) ==
    LET none == [exc |-> "none", at |-> "end", rendered |-> None, outfile |-> file,
                 body |-> <<>>, assembled |-> FALSE, converted |-> FALSE]
    IN IF ~Comparable(DOMAIN g)
       THEN [none EXCEPT !.exc = "TypeError", !.at = "sorted"]
       ELSE LET keys == SortedKeys(DOMAIN g) IN
            IF \E i \in 1..Len(keys) : \E j \in 1..Len(g[keys[i]]) : ~Convertible(g[keys[i]][j])
            THEN [none EXCEPT !.exc = "RuntimeError", !.at = "convert_file"]
            ELSE LET body == [i \in 1..Len(keys) |-> section_to_latex(self, keys[i], g[keys[i]], t)]
                     r == CallRender(ToLatexArgs(self, body), templateOk, file)
                 IN [exc |-> r.exc, at |-> r.at, rendered |-> r.rendered,
                     outfile |-> r.outfile, body |-> body, assembled |-> TRUE,
                     converted |-> TRUE]

\* SolutionGroup.to_latex(outfile, problem_type) on collection c
ToLatex(c, t) ==
    /\ res = Idle
    /\ \E order \in ScanOutcomes(c, t), ok \in BOOLEAN :
          LET a == lazy_get_files(Store, c, t, order)
              r == Assemble(a.st.colls[c], t, a.value.d, ok, outfile)
          IN /\ SetStore(a.st)
             /\ IF a.exc # "none"
                THEN /\ outfile' = outfile
                     /\ res' = [op |-> "to_latex", c |-> c, t |-> t, exc |-> a.exc,
                                at |-> "scan", rendered |-> None, before |-> outfile,
                                body |-> <<>>, assembled |-> FALSE, converted |-> FALSE,
                                value |-> None, scanned |-> a.scanned]
                ELSE /\ outfile' = r.outfile
                     /\ res' = [op |-> "to_latex", c |-> c, t |-> t, exc |-> r.exc,
                                at |-> r.at, rendered |-> r.rendered, before |-> outfile,
                                body |-> r.body, assembled |-> r.assembled,
                                converted |-> r.converted, value |-> a.value,
                                scanned |-> a.scanned]
    /\ UNCHANGED fs
    /\ UNCHANGED metaVars /\ UNCHANGED labelVars

Next ==
    \/ \E f \in Universe : AddFile(f)
    \/ \E f \in Universe : RemoveFile(f)
    \/ Return
    \/ \E c \in 1..Len(colls) : Problems(c)
    \/ \E c \in 1..Len(colls) : Exercises(c)
    \/ \E c \in 1..Len(colls) : Repr(c)
    \/ \E c \in 1..Len(colls), ov \in Overrides : WithMetaOverrides(c, ov)
    \/ \E c \in 1..Len(colls), t \in Types : ToLatex(c, t)
    \/ RenderSolutionsTex

Spec == Init /\ [][Next]_vars

-----------------------------------------------------------------------------
(* Properties of the collections, of the assembly and of the rendering      *)

\* the files of a grouping
FilesOf(g) == UNION {{g[key][i] : i \in 1..Len(g[key])} : key \in DOMAIN g}

AllInt(g) == \A key \in DOMAIN g : "int" \in DOMAIN key

IsCall(names) == res # Idle /\ res.op \in names

RECURSIVE SumScans(_, _)
\* the scans of one problem type over the collections 1..n
SumScans(t, n) == IF n = 0 THEN 0 ELSE scans[<<n, t>>] + SumScans(t, n - 1)

\* the options the specification has to_latex hand to the template
ExpectedOptions(self, body) ==
    LET base == [SolutionTitle |->
                     Str(self.attrs["name"].s
                         \o <<" ", "S", "o", "l", "u", "t", "i", "o", "n", "s">>),
                 SolutionAuthor |-> self.attrs["solution_author"],
                 Abstract |-> [book |-> self.attrs["book"], author |-> self.attrs["author"],
                               solutions_author |-> self.attrs["solution_author"],
                               date |-> self.attrs["solution_date"].ymd],
                 Body |-> body]
    IN IF self.attrs["references_file"] = None THEN base
       ELSE base @@ [Bib |-> Str(self.root \o <<"/">> \o self.attrs["references_file"].s)]

\* C3: to_latex of the problems of a collection whose section keys are all
\* integers and whose files all convert ends without raising, and the output
\* file then holds the template's rendering of the title, the solution author,
\* the abstract, the body and, when configured, the bibliography path.
C3_ToLatexWritesRendering ==
    (/\ IsCall({"to_latex"})
     /\ res.t = "prob"
     /\ res.at # "scan"
     /\ AllInt(res.value.d)
     /\ \A f \in FilesOf(res.value.d) : Convertible(f)
     /\ res.at # "template")
    => /\ res.exc = "none"
       /\ outfile = FileWith(TemplateRender(ExpectedOptions(colls[res.c], res.body)))

\* C4: a copy made by with_meta_overrides holds the groupings of its source:
\* over all calls the tree is scanned at most once per problem type in the
\* whole family, and no call on a copy starts a scan.
C4_OverrideReusesCache ==
    /\ \A t \in Types : SumScans(t, Len(colls)) <= 1
    /\ \A c \in 2..Len(colls) : \A t \in Types :
          /\ scans[<<c, t>>] = 0
          /\ colls[c].cache[t] # None
          /\ colls[c].cache[t] = colls[1].cache[t]
    /\ IsCall({"problems", "exercises", "repr", "with_meta_overrides", "to_latex"})
          => (res.c >= 2 => ~res.scanned)

\* to_latex ran on a copy made with references_file=None, after the files
\* under the root changed since the one scan of the problems
C4_Witness ==
    /\ IsCall({"to_latex"})
    /\ res.c = 2 /\ res.t = "prob"
    /\ colls[2].attrs["references_file"] = None
    /\ scans[<<1, "prob">>] = 1
    /\ FilesOf(colls[2].cache["prob"].d) # Glob(colls[2].root, "prob")

\* C5: for one collection and one problem type at most one scan returns a
\* grouping; the grouping stored by the first access is what every later
\* access returns, without a scan, whatever happened to the files since and
\* also when it is empty.
C5_GroupingComputedOnce ==
    /\ \A c \in 1..Len(colls) : \A t \in Types :
          /\ scans[<<c, t>>] <= 1
          /\ colls[c].cache[t] # None => colls[c].cache[t] = stored[<<c, t>>]
    /\ (IsCall({"problems", "exercises"}) /\ res.exc = "none")
          => /\ res.value = stored[<<res.c, res.t>>]
             /\ res.again => ~res.scanned

\* a later access returned the empty grouping of the first scan although
\* matching files exist by now
C5_Witness ==
    /\ IsCall({"problems"})
    /\ res.exc = "none" /\ res.again
    /\ DOMAIN res.value.d = {}
    /\ Glob(colls[res.c].root, "prob") # {}

DigitChars == {"0", "1", "2", "3", "4", "5", "6", "7", "8", "9"}

C7_BibliographyIffConfigured ==
    (IsCall({"to_latex"}) /\ res.assembled /\ res.at # "template")
    => LET self == colls[res.c] IN
       IF self.attrs["references_file"] = None
       THEN res.rendered # None => "Bib" \notin DOMAIN res.rendered.options
       ELSE /\ res.rendered # None
            /\ "Bib" \in DOMAIN res.rendered.options
            /\ res.rendered.options.Bib
                  = Str(self.root \o <<"/">> \o self.attrs["references_file"].s)

\* C8: a call of to_latex or of render_solutions_tex that raises (in the scan,
\* in the sort, in a conversion, in the call or in the template) leaves the
\* output file as it was, and the file changes only after every file was
\* converted and the template was rendered.
C8_AllOrNothing ==
    IsCall({"to_latex", "render_solutions_tex"})
    => /\ res.exc # "none" => outfile = res.before
       /\ outfile # res.before => (res.converted /\ res.rendered # None)

\* a conversion failed in to_latex while the output file held an earlier document
C8_Witness ==
    /\ IsCall({"to_latex"})
    /\ res.at = "convert_file"
    /\ outfile # Idle
    /\ outfile = res.before

\* C10: the groupings of every collection hold only files under its own root.
C10_GroupingUnderOwnRoot ==
    \A c \in 1..Len(colls) : \A t \in Types :
       colls[c].cache[t] # None =>
          \A f \in FilesOf(colls[c].cache[t].d) : f.root = colls[c].root

====
